---- MODULE Spec2Model ----
(***************************************************************************)
(* token-bucket-redis: a token bucket whose state lives in one Redis hash  *)
(* and is changed only by the registered function use_token_bucket_1_0_0.  *)
(*                                                                         *)
(* Numbers.  The Lua script computes with doubles.  The model computes     *)
(* with exact rationals: every token quantity q is held as the integer     *)
(* q * 60000, so that the refill  rate / (60 * 1000) * elapsed  of an      *)
(* integer rate over an integer number of milliseconds is the integer      *)
(* rate * elapsed.  Times are integers in milliseconds.                    *)
(*                                                                         *)
(* Conversions.  The arguments go from JavaScript numbers to strings       *)
(* (toString) and back (tonumber), and the stored fields from Lua numbers  *)
(* to strings (17 significant digits) and back: both give the number back, *)
(* so they do not appear.  The number in the function's reply does not     *)
(* come back: a Lua number in a reply is sent as an integer, its fraction  *)
(* dropped (LuaNumberReply).                                               *)
(*                                                                         *)
(* Time.  One clock serves the callers' Date.now() and the server's        *)
(* expiry.  A caller reads it when it enters safeConsume; the server runs  *)
(* the call at that time or later, and calls of several callers run in     *)
(* any order.                                                              *)
(***************************************************************************)
EXTENDS Integers, FiniteSets, Sequences, TLC

VARIABLES
  clock,      \* the wall clock, in ms: Date.now() of every caller and the server's time
  capacity,   \* createBucket's capacity (scaled)
  refillRateInTokensPerMinute,  \* createBucket's refillRateInTokensPerMinute
  store,      \* the Redis hash under the bucket's key, with its expiry
  pc,         \* per caller: "idle", or "sent" while its fCall is in flight
  req,        \* per caller: the call in flight (operation, amount, nowInMilliseconds)
  res,        \* per caller: how its last call ended (returned / thrown, tokenAmount)
  ran,        \* history: the caller whose call the server ran last (0: none since expiry)
  mode,       \* history: which of the histories below the behaviour records
  mark,       \* history: one earlier transition, with no consumption since
  lib,        \* the server's libraries named token_bucket_redis_1_0_0: how many
  proc,       \* per process: its redisClientOrPool and its call of initialize
  handle,     \* per caller: what its createBucket gave ("none", "created", "thrown")
  id,         \* per caller: the id its handle was created with
  store2,     \* the record at the key of bucket id 2
  window      \* history: an interval of timestamps and the cost admitted in it

\* the variables of initialization
initvars == <<lib, proc>>
keyvars == <<id, store2>>

vars == <<clock, capacity, refillRateInTokensPerMinute, store, pc, req, res,
          ran, mode, mark, initvars, handle,
          keyvars, window>>

----------------------------------------------------------------------------
(* Bounds and the values the inputs are drawn from *)

MaxTicks == 5

\* lua/lib.lua:30, the divisor 60 * 1000; also the scale of every token quantity
MsPerMinute == 60 * 1000
MsPerSecond == MsPerMinute \div 60

\* the clock advances in steps of half a second
TickMs == MsPerSecond \div 2

\* n half tokens, scaled
HalfTokens(n) == n * (MsPerMinute \div 2)

Callers == {1, 2}
\* <<capacity, refillRateInTokensPerMinute>>: 2 tokens at 1 token per second,
\* 2.5 tokens at 2 tokens per second
Configs == {<<HalfTokens(4), 60>>, <<HalfTokens(5), 120>>}
Amounts == {HalfTokens(3), HalfTokens(6)}          \* 1.5 and 3 tokens

----------------------------------------------------------------------------
(* Arithmetic *)

\* math.ceil of the rational a / b, b > 0
Ceil(a, b) == -((-a) \div b)

\* a double converted to an integer the way C's (long long) cast does: toward zero
Trunc(a, b) == IF a >= 0 THEN a \div b ELSE -((-a) \div b)

Min(a, b) == IF a <= b THEN a ELSE b

----------------------------------------------------------------------------
(* The store: one key *)

NoBucket == [exists |-> FALSE, tokens |-> 0,
             last_refilled_at_in_milliseconds |-> 0, expire_at |-> 0]

\* a key whose expiry time has passed is gone for every command that reads it
Expired(bucket, server_time) == bucket.exists /\ server_time > bucket.expire_at

\* redis.call("HGETALL", bucket_key): the stored fields, or nothing
HGETALL(bucket, server_time) ==
  IF Expired(bucket, server_time) THEN NoBucket ELSE bucket

\* redis.call("HSET", bucket_key, unpack(updated_bucket)): the fields are
\* overwritten, the key's expiry is left as it is (none on a new key)
HSET(tokens, last_refilled_at) ==
  [exists |-> TRUE, tokens |-> tokens,
   last_refilled_at_in_milliseconds |-> last_refilled_at, expire_at |-> 0]

\* redis.call("EXPIRE", bucket_key, seconds): a timeout that is not positive
\* deletes the key, any other replaces the key's expiry
EXPIRE(bucket, seconds, server_time) ==
  IF seconds <= 0 THEN NoBucket
  ELSE [bucket EXCEPT !.expire_at = server_time + seconds * MsPerSecond]

\* a Lua number in a function's reply becomes an integer reply: the fraction
\* is dropped.  parseFloat of it is that integer (kept scaled)
LuaNumberReply(tokens) == Trunc(tokens, MsPerMinute) * MsPerMinute

----------------------------------------------------------------------------
(* lua/lib.lua: use_token_bucket *)

time_elapsed_reversed(now_in_milliseconds, last_refilled_at_in_milliseconds) ==
  last_refilled_at_in_milliseconds - now_in_milliseconds
time_elapsed_of(now_in_milliseconds, last_refilled_at_in_milliseconds) ==
  now_in_milliseconds - last_refilled_at_in_milliseconds

tokens_after_refill_uncapped(current_tokens, tokens_to_refill, token_capacity) ==
  current_tokens + tokens_to_refill
tokens_after_refill_of(current_tokens, tokens_to_refill, token_capacity) ==
  Min(current_tokens + tokens_to_refill, token_capacity)

there_are_enough_tokens_of(token_cost, tokens_after_refill) ==
  token_cost <= tokens_after_refill

updated_tokens_charged(enough, tokens_after_refill, token_cost) ==
  tokens_after_refill - token_cost
updated_tokens_of(enough, tokens_after_refill, token_cost) ==
  IF ~enough THEN tokens_after_refill ELSE tokens_after_refill - token_cost

seconds_to_refill_completely_floor(token_capacity, updated_tokens, rate) ==
  (token_capacity - updated_tokens) \div (rate * MsPerSecond)
seconds_to_refill_completely_of(token_capacity, updated_tokens, rate) ==
  Ceil(token_capacity - updated_tokens, rate * MsPerSecond)

use_token_bucket(stored, token_capacity, token_cost, token_refill_rate_in_tokens_per_minute, now_in_milliseconds, server_time) ==
  LET stored_bucket == HGETALL(stored, server_time)
      bucket == IF stored_bucket.exists THEN stored_bucket
                ELSE [exists |-> FALSE, tokens |-> token_capacity,
                      last_refilled_at_in_milliseconds |-> now_in_milliseconds,
                      expire_at |-> 0]
      current_tokens == bucket.tokens
      current_last_refilled_at_in_milliseconds ==
        bucket.last_refilled_at_in_milliseconds
      time_elapsed_in_milliseconds_since_last_refill ==
        time_elapsed_of(now_in_milliseconds,
                        current_last_refilled_at_in_milliseconds)
      \* rate / (60 * 1000) * elapsed, scaled by 60 * 1000
      tokens_to_refill ==
        token_refill_rate_in_tokens_per_minute
          * time_elapsed_in_milliseconds_since_last_refill
      tokens_after_refill ==
        tokens_after_refill_of(current_tokens, tokens_to_refill, token_capacity)
      there_are_enough_tokens ==
        there_are_enough_tokens_of(token_cost, tokens_after_refill)
      updated_tokens ==
        updated_tokens_of(there_are_enough_tokens, tokens_after_refill, token_cost)
      updated_last_refilled_at_in_milliseconds == now_in_milliseconds
      seconds_to_refill_completely ==
        seconds_to_refill_completely_of(token_capacity, updated_tokens,
                                        token_refill_rate_in_tokens_per_minute)
  IN [bucket |-> EXPIRE(HSET(updated_tokens,
                             updated_last_refilled_at_in_milliseconds),
                        seconds_to_refill_completely, server_time),
      reply |-> <<IF there_are_enough_tokens THEN "SUCCESS" ELSE "FAIL",
                  LuaNumberReply(updated_tokens)>>,
      \* the script's locals, for the history
      loaded |-> stored_bucket.exists,
      tokens_after_refill |-> tokens_after_refill,
      there_are_enough_tokens |-> there_are_enough_tokens,
      updated_tokens |-> updated_tokens,
      seconds_to_refill_completely |-> seconds_to_refill_completely]

----------------------------------------------------------------------------
(* src/bucket: the handle's methods, applied to the function's reply *)

NoResult == [kind |-> "none", success |-> FALSE, tokenAmount |-> 0, reason |-> ""]

safeConsume(result) ==
  LET outcome == result[1]
      tokenAmount == result[2]
  IN IF outcome = "FAIL"
     THEN [success |-> FALSE, tokenAmount |-> tokenAmount,
           reason |-> "NOT_ENOUGH_TOKENS"]
     ELSE [success |-> TRUE, tokenAmount |-> tokenAmount, reason |-> ""]

consume(result) ==
  LET r == safeConsume(result)
  IN IF ~r.success
     THEN [kind |-> "thrown", success |-> FALSE,
           tokenAmount |-> r.tokenAmount, reason |-> r.reason]
     ELSE [kind |-> "returned", success |-> TRUE,
           tokenAmount |-> r.tokenAmount, reason |-> ""]

\* getTokenAmount is consume(0); what it throws, it throws
getTokenAmount(result) == consume(result)

----------------------------------------------------------------------------
(* The state machine *)

\* the instants of the model's clock
Times == {k * TickMs : k \in 0..MaxTicks}

NoReq == [op |-> "none", amount |-> 0, nowInMilliseconds |-> 0, seen |-> NoBucket]

NoMark == [set |-> FALSE, now |-> 0, tokens |-> 0]

NoWindow == [t0 |-> 0, t1 |-> 0, total |-> 0]

\* a process that has not called initialize, and one whose call has resolved
NoProc == [pc |-> "idle", redisClientOrPool |-> FALSE, isOpen |-> FALSE, outcome |-> "none", entryLib |-> FALSE, didLoad |-> FALSE]
Initialized == [pc |-> "idle", redisClientOrPool |-> TRUE, isOpen |-> TRUE, outcome |-> "resolved", entryLib |-> FALSE, didLoad |-> TRUE]

\* the buckets' part of the initial state
InitBucket(m) ==
  /\ clock = 0
  /\ \E config \in Configs :
       /\ capacity = config[1]
       /\ refillRateInTokensPerMinute = config[2]
  /\ store = NoBucket
  /\ store2 = NoBucket
  /\ id = [c \in Callers |-> 1]
  /\ pc = [c \in Callers |-> "idle"]
  /\ req = [c \in Callers |-> NoReq]
  /\ res = [c \in Callers |-> NoResult]
  /\ ran = 0
  /\ mode = m
  /\ mark = NoMark
  /\ window = NoWindow

\* every process has initialized the library: the function is registered
InitIn(m) ==
  /\ InitBucket(m)
  /\ lib = 1
  /\ proc = [p \in Callers |-> Initialized]
  /\ handle = [c \in Callers |-> "created"]

Init == InitIn("plain")

\* the key of a bucket id: "token-bucket:" and the id
bucketKey_constant(bucketId) == 1
bucketKey(bucketId) == bucketId

\* the key of caller c's handle, and the record at a key
KeyOf(c) == bucketKey(id[c])
Stored(key) == IF key = 1 THEN store ELSE store2

\* a caller enters safeConsume: it reads Date.now() and sends the fCall
Call(c, op, amount) ==
  /\ handle[c] = "created"
  /\ proc[c].isOpen
  /\ pc[c] = "idle"
  /\ pc' = [pc EXCEPT ![c] = "sent"]
  /\ req' = [req EXCEPT ![c] =
               [op |-> op, amount |-> amount, nowInMilliseconds |-> clock,
                seen |-> IF mode = "atomic" THEN HGETALL(Stored(KeyOf(c)), clock)
                         ELSE NoBucket]]
  /\ res' = [res EXCEPT ![c] = NoResult]
  /\ UNCHANGED <<clock, capacity, refillRateInTokensPerMinute, store, ran,
                 mode, mark,
                 keyvars, window>>
  /\ UNCHANGED <<initvars, handle>>

CallConsume(c) == \E amount \in Amounts : Call(c, "consume", amount)

CallGetTokenAmount(c) == Call(c, "getTokenAmount", 0)

\* the key as the function run for caller c reads it: the server runs one
\* function at a time, so it is the key as it is when the function starts
KeyReadAtCall(c) == req[c].seen
KeyRead(c) == Stored(KeyOf(c))

\* the function run for caller c, on the key it reads
Run(c) ==
  use_token_bucket(KeyRead(c), capacity, req[c].amount,
                   refillRateInTokensPerMinute, req[c].nowInMilliseconds, clock)

\* what the caller's method makes of the function's reply
Outcome(op, reply) ==
  IF op = "getTokenAmount" THEN getTokenAmount(reply)
  ELSE IF op = "safeConsume"
  THEN [kind |-> "returned", success |-> safeConsume(reply).success,
        tokenAmount |-> safeConsume(reply).tokenAmount,
        reason |-> safeConsume(reply).reason]
  ELSE consume(reply)

\* the history of an interval of timestamps: a call admitted with its
\* timestamp in the interval adds its cost
Admit(w, enough, call) ==
  IF enough /\ w.t0 <= call.nowInMilliseconds /\ call.nowInMilliseconds <= w.t1
  THEN [w EXCEPT !.total = @ + call.amount]
  ELSE w

\* the server runs the function for caller c, in one step, and c's await ends
FCall(c) ==
  /\ pc[c] = "sent"
  /\ lib > 0
  /\ store' = IF KeyOf(c) = 1 THEN Run(c).bucket ELSE store
  /\ store2' = IF KeyOf(c) = 1 THEN store2 ELSE Run(c).bucket
  /\ res' = [res EXCEPT ![c] = Outcome(req[c].op, Run(c).reply)]
  /\ ran' = c
  /\ LET here == [set |-> TRUE, now |-> req[c].nowInMilliseconds,
                  tokens |-> Run(c).updated_tokens]
         consumed == Run(c).there_are_enough_tokens /\ req[c].amount > 0
     IN mark' \in IF mode # "mono" THEN {mark}
                  ELSE IF consumed THEN {NoMark, here} ELSE {mark, here}
  /\ pc' = [pc EXCEPT ![c] = "idle"]
  /\ req' = [req EXCEPT ![c] = NoReq]
  /\ window' = IF mode = "rate"
                THEN Admit(window, Run(c).there_are_enough_tokens, req[c])
                ELSE window
  /\ UNCHANGED <<clock, capacity, refillRateInTokensPerMinute, mode, id>>
  /\ UNCHANGED <<initvars, handle>>

\* the server removes a key whose expiry time has passed
Expire ==
  /\ Expired(store, clock)
  /\ store' = NoBucket
  /\ ran' = 0
  /\ UNCHANGED <<clock, capacity, refillRateInTokensPerMinute, pc, req, res,
                 mode, mark,
                 keyvars, window>>
  /\ UNCHANGED <<initvars, handle>>

Tick ==
  /\ clock < MaxTicks * TickMs
  /\ clock' = clock + TickMs
  /\ UNCHANGED <<capacity, refillRateInTokensPerMinute, store, pc, req, res,
                 ran, mode, mark,
                 keyvars, window>>
  /\ UNCHANGED <<initvars, handle>>

Next ==
  \/ \E c \in Callers : CallConsume(c)
  \/ \E c \in Callers : CallGetTokenAmount(c)
  \/ \E c \in Callers : FCall(c)
  \/ Expire
  \/ Tick

Spec == Init /\ [][Next]_vars

\* the same machine, recording what each call in flight saw when it was issued
SpecAtomic == InitIn("atomic") /\ [][Next]_vars

\* the same machine, recording one earlier transition
SpecMono == InitIn("mono") /\ [][Next]_vars

----------------------------------------------------------------------------
(* src/client and src/lib: initialize *)

\* checkLibIsLoaded: functionList({ LIBRARYNAME: libName }) has a library
\* named libName
checkLibIsLoaded_never(registered) == FALSE
checkLibIsLoaded(registered) == registered > 0

\* loadLib: FUNCTION LOAD, without REPLACE, of lua/lib.lua: the server
\* refuses a library whose name it already has
functionLoad(registered) ==
  IF registered > 0 THEN [ok |-> FALSE, lib |-> registered]
  ELSE [ok |-> TRUE, lib |-> registered + 1]

\* initialize is called: redisClientOrPool is set, and the client connects
\* unless it is open
InitializeEnter(p) ==
  /\ proc[p].pc = "idle"
  /\ proc' = [proc EXCEPT ![p] =
                [pc |-> IF proc[p].isOpen THEN "check" ELSE "connect",
                 redisClientOrPool |-> TRUE, isOpen |-> proc[p].isOpen,
                 outcome |-> "none", entryLib |-> lib > 0, didLoad |-> FALSE]]
  /\ UNCHANGED <<clock, capacity, refillRateInTokensPerMinute, store, pc, req,
                 res, ran, mode, mark, lib, handle,
                 keyvars, window>>

\* await redisClientOrPool.connect() ends
Connect(p) ==
  /\ proc[p].pc = "connect"
  /\ proc' = [proc EXCEPT ![p].pc = "check", ![p].isOpen = TRUE]
  /\ UNCHANGED <<clock, capacity, refillRateInTokensPerMinute, store, pc, req,
                 res, ran, mode, mark, lib, handle,
                 keyvars, window>>

\* the server answers functionList: initialize returns if the library is
\* loaded, and goes on to loadLib if not
CheckLibIsLoaded(p) ==
  /\ proc[p].pc = "check"
  /\ proc' = [proc EXCEPT ![p] =
                IF checkLibIsLoaded(lib)
                THEN [@ EXCEPT !.pc = "idle", !.outcome = "resolved"]
                ELSE [@ EXCEPT !.pc = "load"]]
  /\ UNCHANGED <<clock, capacity, refillRateInTokensPerMinute, store, pc, req,
                 res, ran, mode, mark, lib, handle,
                 keyvars, window>>

\* the server answers functionLoad: initialize resolves, or rejects with the
\* server's error
LoadLib(p) ==
  /\ proc[p].pc = "load"
  /\ lib' = functionLoad(lib).lib
  /\ proc' = [proc EXCEPT ![p].pc = "idle", ![p].didLoad = TRUE,
                          ![p].outcome = IF functionLoad(lib).ok
                                         THEN "resolved" ELSE "rejected"]
  /\ UNCHANGED <<clock, capacity, refillRateInTokensPerMinute, store, pc, req,
                 res, ran, mode, mark, handle,
                 keyvars, window>>

\* no process has called initialize, no library is registered; the client a
\* process will pass to initialize is open or not
InitFresh ==
  /\ InitBucket("init")
  /\ lib = 0
  /\ proc \in [Callers -> {NoProc, [NoProc EXCEPT !.isOpen = TRUE]}]
  /\ handle = [c \in Callers |-> "none"]

NextInit ==
  \/ \E p \in Callers : InitializeEnter(p)
  \/ \E p \in Callers : Connect(p)
  \/ \E p \in Callers : CheckLibIsLoaded(p)
  \/ \E p \in Callers : LoadLib(p)

\* the processes initialize, each as often as it likes
SpecInit == InitFresh /\ [][NextInit]_vars

----------------------------------------------------------------------------
(* src/bucket: createBucket and the handle it returns *)

\* the configurations an application may pass to createBucket: the valid
\* ones, and a capacity of 0 and of -1 token
AllConfigs == Configs \cup {<<0, 60>>, <<HalfTokens(-2), 60>>}

\* the methods of the object createBucket returns
BucketMethods == {"consume", "getId", "getCapacity", "getRefillRate", "getTokenAmount"}

\* createBucket throws unless redisClientOrPool is set
createBucket_unguarded(redisClientOrPool, config) == "created"
createBucket(redisClientOrPool, config) ==
  IF ~redisClientOrPool THEN "thrown" ELSE "created"

\* the store once createBucket has returned: createBucket sends nothing
StoreAfterCreateBucket_full(bucket, token_capacity) ==
  [exists |-> TRUE, tokens |-> token_capacity,
   last_refilled_at_in_milliseconds |-> 0, expire_at |-> MsPerSecond]
StoreAfterCreateBucket(bucket, token_capacity) == bucket

\* caller c calls createBucket with the configuration of the bucket
CreateBucket(c) ==
  /\ handle[c] # "created"
  /\ handle' = [handle EXCEPT ![c] =
                  createBucket(proc[c].redisClientOrPool,
                               <<capacity, refillRateInTokensPerMinute>>)]
  /\ store' = StoreAfterCreateBucket(store, capacity)
  /\ UNCHANGED <<clock, capacity, refillRateInTokensPerMinute, pc, req, res,
                 ran, mode, mark, initvars,
                 keyvars, window>>

\* what a call ends with when the client or the server fails it
Failed(why) == [kind |-> "failed", success |-> FALSE, tokenAmount |-> 0, reason |-> why]

\* caller c calls bucket.safeConsume(amount): a method the handle has is
\* called, a method it has not is a TypeError
CallSafeConsume(c) ==
  /\ handle[c] = "created"
  /\ pc[c] = "idle"
  /\ IF "safeConsume" \in BucketMethods
     THEN \E amount \in Amounts : Call(c, "safeConsume", amount)
     ELSE /\ res' = [res EXCEPT ![c] =
                       [kind |-> "thrown", success |-> FALSE,
                        tokenAmount |-> 0, reason |-> "TypeError"]]
          /\ UNCHANGED <<clock, capacity, refillRateInTokensPerMinute, store,
                         pc, req, ran, mode, mark, initvars, handle,
                 keyvars, window>>

\* caller c calls consume or getTokenAmount on a client that is not open:
\* the client rejects the command
CallClosed(c) ==
  /\ handle[c] = "created"
  /\ ~proc[c].isOpen
  /\ pc[c] = "idle"
  /\ res' = [res EXCEPT ![c] = Failed("ClientClosedError")]
  /\ UNCHANGED <<clock, capacity, refillRateInTokensPerMinute, store, pc, req,
                 ran, mode, mark, initvars, handle,
                 keyvars, window>>

\* the server has no function of that name: the fCall is rejected
FCallNoLib(c) ==
  /\ pc[c] = "sent"
  /\ lib = 0
  /\ res' = [res EXCEPT ![c] = Failed("Function not found")]
  /\ pc' = [pc EXCEPT ![c] = "idle"]
  /\ req' = [req EXCEPT ![c] = NoReq]
  /\ UNCHANGED <<clock, capacity, refillRateInTokensPerMinute, store, ran,
                 mode, mark, initvars, handle,
                 keyvars, window>>

\* nothing is initialized, no handle is created; the application's
\* configuration is any
InitHandle ==
  /\ clock = 0
  /\ \E config \in AllConfigs :
       /\ capacity = config[1]
       /\ refillRateInTokensPerMinute = config[2]
  /\ store = NoBucket
  /\ store2 = NoBucket
  /\ id = [c \in Callers |-> 1]
  /\ pc = [c \in Callers |-> "idle"]
  /\ req = [c \in Callers |-> NoReq]
  /\ res = [c \in Callers |-> NoResult]
  /\ ran = 0
  /\ mode = "handle"
  /\ mark = NoMark
  /\ window = NoWindow
  /\ lib = 0
  /\ proc \in [Callers -> {NoProc, [NoProc EXCEPT !.isOpen = TRUE]}]
  /\ handle = [c \in Callers |-> "none"]

NextHandle ==
  \/ NextInit
  \/ \E c \in Callers : CreateBucket(c)
  \/ \E c \in Callers : CallConsume(c)
  \/ \E c \in Callers : CallGetTokenAmount(c)
  \/ \E c \in Callers : CallSafeConsume(c)
  \/ \E c \in Callers : CallClosed(c)
  \/ \E c \in Callers : FCall(c)
  \/ \E c \in Callers : FCallNoLib(c)

\* processes that initialize, create their handle and use it, at one instant
SpecHandle == InitHandle /\ [][NextHandle]_vars

----------------------------------------------------------------------------
(* Two bucket ids *)

\* the server removes the key of bucket id 2 when its expiry time has passed
Expire2 ==
  /\ Expired(store2, clock)
  /\ store2' = NoBucket
  /\ UNCHANGED <<clock, capacity, refillRateInTokensPerMinute, store, pc, req,
                 res, ran, mode, mark, initvars, handle, id,
                 window>>

\* caller c's handle was created with id c, with the one configuration
InitKeys ==
  /\ clock = 0
  /\ \E config \in Configs :
       /\ capacity = config[1]
       /\ refillRateInTokensPerMinute = config[2]
  /\ store = NoBucket
  /\ store2 = NoBucket
  /\ id = [c \in Callers |-> c]
  /\ pc = [c \in Callers |-> "idle"]
  /\ req = [c \in Callers |-> NoReq]
  /\ res = [c \in Callers |-> NoResult]
  /\ ran = 0
  /\ mode = "keys"
  /\ mark = NoMark
  /\ window = NoWindow
  /\ lib = 1
  /\ proc = [p \in Callers |-> Initialized]
  /\ handle = [c \in Callers |-> "created"]

NextKeys ==
  \/ Next
  \/ Expire2

\* the machine with one caller on each of two bucket ids
SpecKeys == InitKeys /\ [][NextKeys]_vars

----------------------------------------------------------------------------
(* The function on an absent key and on a full record *)

\* the full record at the key of bucket id 1 and no record at the key of
\* bucket id 2; the same call, with its timestamp not before the record's
\* last_refilled_at, is in flight on each; the server's time is not before
\* the call's and the full record has not expired
InitEquiv ==
  /\ clock \in Times
  /\ \E config \in Configs :
       /\ capacity = config[1]
       /\ refillRateInTokensPerMinute = config[2]
  /\ \E last \in Times, expire \in Times :
       /\ expire >= clock
       /\ store = [exists |-> TRUE, tokens |-> capacity,
                   last_refilled_at_in_milliseconds |-> last,
                   expire_at |-> expire]
       /\ mark = [set |-> TRUE, now |-> last, tokens |-> capacity]
  /\ store2 = NoBucket
  /\ id = [c \in Callers |-> c]
  /\ pc = [c \in Callers |-> "sent"]
  /\ \E now \in Times, call \in {<<"getTokenAmount", 0>>} \cup ({"consume"} \X Amounts) :
       /\ now >= store.last_refilled_at_in_milliseconds
       /\ now <= clock
       /\ req = [c \in Callers |->
                   [op |-> call[1], amount |-> call[2],
                    nowInMilliseconds |-> now, seen |-> NoBucket]]
  /\ res = [c \in Callers |-> NoResult]
  /\ ran = 0
  /\ mode = "equiv"
  /\ window = NoWindow
  /\ lib = 1
  /\ proc = [p \in Callers |-> Initialized]
  /\ handle = [c \in Callers |-> "created"]

NextEquiv == \E c \in Callers : FCall(c)

\* the function applied once to the full record and once to the absent key
SpecEquiv == InitEquiv /\ [][NextEquiv]_vars

----------------------------------------------------------------------------
(* The cost admitted in an interval of timestamps *)

\* the machine's initial state, with any interval [t0, t1] to record
InitRate ==
  /\ clock = 0
  /\ \E config \in Configs :
       /\ capacity = config[1]
       /\ refillRateInTokensPerMinute = config[2]
  /\ store = NoBucket
  /\ store2 = NoBucket
  /\ id = [c \in Callers |-> 1]
  /\ pc = [c \in Callers |-> "idle"]
  /\ req = [c \in Callers |-> NoReq]
  /\ res = [c \in Callers |-> NoResult]
  /\ ran = 0
  /\ mode = "rate"
  /\ mark = NoMark
  /\ \E t0 \in Times, t1 \in Times :
       t0 <= t1 /\ window = [t0 |-> t0, t1 |-> t1, total |-> 0]
  /\ lib = 1
  /\ proc = [p \in Callers |-> Initialized]
  /\ handle = [c \in Callers |-> "created"]

\* the same machine, recording the cost admitted in one interval
SpecRate == InitRate /\ [][Next]_vars

----------------------------------------------------------------------------
(* A sequence of calls, with and without getTokenAmount calls in between *)

\* the same call is sent on bucket id 1 and on bucket id 2, at the same time
PairCall(op, amount) ==
  /\ \A c \in Callers : handle[c] = "created" /\ proc[c].isOpen /\ pc[c] = "idle"
  /\ pc' = [c \in Callers |-> "sent"]
  /\ req' = [c \in Callers |->
               [op |-> op, amount |-> amount, nowInMilliseconds |-> clock,
                seen |-> NoBucket]]
  /\ res' = [c \in Callers |-> NoResult]
  /\ UNCHANGED <<clock, capacity, refillRateInTokensPerMinute, store, ran,
                 mode, mark, initvars, handle, keyvars, window>>

PairCallConsume == \E amount \in Amounts : PairCall("consume", amount)

PairCallGetTokenAmount == PairCall("getTokenAmount", 0)

\* the server runs the two calls, each on its key, at the same time
PairFCall ==
  /\ \A c \in Callers : pc[c] = "sent"
  /\ lib > 0
  /\ store' = Run(1).bucket
  /\ store2' = Run(2).bucket
  /\ res' = [c \in Callers |-> Outcome(req[c].op, Run(c).reply)]
  /\ ran' = 1
  /\ mark' = [set |-> TRUE, now |-> req[1].nowInMilliseconds,
              tokens |-> Run(1).updated_tokens]
  /\ pc' = [c \in Callers |-> "idle"]
  /\ req' = [c \in Callers |-> NoReq]
  /\ UNCHANGED <<clock, capacity, refillRateInTokensPerMinute, mode, initvars,
                 handle, id, window>>

\* a getTokenAmount on bucket id 1 only, run after a call of the sequence:
\* its timestamp is not before that of the call run last and not after that
\* of the call in flight
Observe ==
  \E now \in Times :
    /\ mark.set
    /\ mark.now <= now /\ now <= clock
    /\ pc[1] = "sent" => now <= req[1].nowInMilliseconds
    /\ lib > 0
    /\ LET run == use_token_bucket(store, capacity, 0,
                                   refillRateInTokensPerMinute, now, clock)
       IN /\ store' = run.bucket
          /\ mark' = [set |-> TRUE, now |-> now, tokens |-> run.updated_tokens]
    /\ UNCHANGED <<clock, capacity, refillRateInTokensPerMinute, pc, req, res,
                   ran, mode, initvars, handle, keyvars, window>>

\* the two bucket ids have the one configuration and no record
InitObserve ==
  /\ clock = 0
  /\ \E config \in Configs :
       /\ capacity = config[1]
       /\ refillRateInTokensPerMinute = config[2]
  /\ store = NoBucket
  /\ store2 = NoBucket
  /\ id = [c \in Callers |-> c]
  /\ pc = [c \in Callers |-> "idle"]
  /\ req = [c \in Callers |-> NoReq]
  /\ res = [c \in Callers |-> NoResult]
  /\ ran = 0
  /\ mode = "observe"
  /\ mark = NoMark
  /\ window = NoWindow
  /\ lib = 1
  /\ proc = [p \in Callers |-> Initialized]
  /\ handle = [c \in Callers |-> "created"]

NextObserve ==
  \/ PairCallConsume
  \/ PairCallGetTokenAmount
  \/ PairFCall
  \/ Observe
  \/ Expire
  \/ Expire2
  \/ Tick

\* one sequence of calls with non-decreasing timestamps, run on bucket id 1
\* with getTokenAmount calls in between and on bucket id 2 without
SpecObserve == InitObserve /\ [][NextObserve]_vars

----------------------------------------------------------------------------
(* What the claims speak of *)

\* the step in which the server runs caller c's call and c gets its result
FCallStep(c) == pc[c] = "sent" /\ pc'[c] = "idle"

\* the token count a bucket stands for: an absent record is a full bucket
Eff(bucket) == IF bucket.exists THEN bucket.tokens ELSE capacity

\* min(capacity, stored_tokens + refill_rate/60000 * (now - last_refilled_at))
\* for caller c's call, on the key as it is; an absent key counts as
\* capacity tokens refilled at now
Refilled(c) ==
  IF store.exists /\ clock <= store.expire_at
  THEN Min(capacity,
           store.tokens + refillRateInTokensPerMinute
             * (req[c].nowInMilliseconds - store.last_refilled_at_in_milliseconds))
  ELSE capacity

Admitted(c) == req[c].amount <= Refilled(c)

----------------------------------------------------------------------------
(* C1 *)

\* C1: after every transition, by any number of concurrent callers, the token
\* count stored and the token count returned are within [0, capacity].
C1_TokensWithinCapacity ==
  /\ store.exists => 0 <= store.tokens /\ store.tokens <= capacity
  /\ \A c \in Callers :
       res[c].kind # "none" =>
         0 <= res[c].tokenAmount /\ res[c].tokenAmount <= capacity

----------------------------------------------------------------------------
(* C2 *)

\* C2: calls on one key are serialized: the server's run of a call reads the
\* key as it is at that instant, decides, stores and sets the expiry in one
\* step that touches no other caller, and the key changes in no other way
\* than by such a step or by expiry; so the state and every result are those
\* of the sequential execution of the calls in the order the server ran them.
C2_Serialized ==
  [][ /\ \A c \in Callers :
           FCallStep(c) =>
             LET r == use_token_bucket(store, capacity, req[c].amount,
                                       refillRateInTokensPerMinute,
                                       req[c].nowInMilliseconds, clock)
             IN /\ store' = r.bucket
                /\ res'[c] = Outcome(req[c].op, r.reply)
                /\ \A d \in Callers \ {c} :
                     pc'[d] = pc[d] /\ req'[d] = req[d] /\ res'[d] = res[d]
      /\ store' # store =>
           \/ \E c \in Callers : FCallStep(c)
           \/ Expired(store, clock) /\ store' = NoBucket ]_vars

\* a call is in flight that was issued before the call the server ran last,
\* and the key is no longer what it was when the call in flight was issued
C2_Witness ==
  \E c \in Callers : \E d \in Callers \ {c} :
    /\ pc[c] = "sent" /\ ran = d /\ res[d].kind = "returned"
    /\ store.exists /\ req[c].seen # store
    /\ req[c].nowInMilliseconds <= store.last_refilled_at_in_milliseconds

----------------------------------------------------------------------------
(* C3 *)

\* C3: a call of cost c is admitted iff c <= tokens_after_refill; when it is
\* admitted the stored and the returned token count are tokens_after_refill - c.
C3_AdmissionExact ==
  [][ \A c \in Callers :
        FCallStep(c) =>
          /\ res'[c].kind = "returned" <=> Admitted(c)
          /\ Admitted(c) =>
               /\ Eff(store') = Refilled(c) - req[c].amount
               /\ res'[c].tokenAmount = Refilled(c) - req[c].amount ]_vars

----------------------------------------------------------------------------
(* C4 *)

\* C4 as stated: a denied call leaves a record holding the refilled amount,
\* the cost not subtracted, and the call's now.
C4_DeniedPersists ==
  [][ \A c \in Callers :
        FCallStep(c) /\ ~Admitted(c) =>
          /\ store'.exists
          /\ store'.tokens = Refilled(c)
          /\ store'.last_refilled_at_in_milliseconds = req[c].nowInMilliseconds
    ]_vars

\* C4, amended: a denied call leaves a record holding the refilled amount,
\* the cost not subtracted, and the call's now, with the expiry of that
\* amount, unless the refilled amount is the capacity: then it leaves no record.
C4_DeniedPersistsUnlessFull ==
  [][ \A c \in Callers :
        FCallStep(c) /\ ~Admitted(c) =>
          /\ res'[c].kind = "thrown"
          /\ IF Refilled(c) = capacity
             THEN store' = NoBucket
             ELSE /\ store'.exists
                  /\ store'.tokens = Refilled(c)
                  /\ store'.last_refilled_at_in_milliseconds
                       = req[c].nowInMilliseconds
                  /\ store'.expire_at > clock ]_vars

\* a denied call has just left a record that holds a refill: one token at
\* 500 ms in the bucket of 2 tokens, which held half a token at 0 ms
C4_Witness ==
  \E c \in Callers :
    /\ ran = c /\ res[c].kind = "thrown"
    /\ capacity = HalfTokens(4)
    /\ store.exists /\ store.tokens = HalfTokens(2)
    /\ store.last_refilled_at_in_milliseconds = TickMs

----------------------------------------------------------------------------
(* C5 *)

\* C5: consume throws NOT_ENOUGH_TOKENS iff the call was not admitted; the
\* error's tokenAmount is the token count the transition persisted; an
\* admitted consume returns the remaining tokens.
C5_ErrorCarriesPersistedTokens ==
  [][ \A c \in Callers :
        FCallStep(c) /\ req[c].op = "consume" =>
          /\ res'[c].kind = "thrown" <=> ~Admitted(c)
          /\ res'[c].kind = "thrown" =>
               /\ res'[c].reason = "NOT_ENOUGH_TOKENS"
               /\ res'[c].tokenAmount = Eff(store')
          /\ res'[c].kind = "returned" =>
               res'[c].tokenAmount = Eff(store') ]_vars

----------------------------------------------------------------------------
(* C6 *)

\* C6: getTokenAmount on a bucket with no stored record returns capacity,
\* whatever the capacity and the refill rate.
C6_FreshBucketReportsCapacity ==
  [][ \A c \in Callers :
        FCallStep(c) /\ req[c].op = "getTokenAmount"
                     /\ ~HGETALL(store, clock).exists =>
          res'[c].kind = "returned" /\ res'[c].tokenAmount = capacity ]_vars

----------------------------------------------------------------------------
(* C7 *)

\* C7: getTokenAmount is admitted in every reachable state: it returns a
\* token count and never throws NOT_ENOUGH_TOKENS.
C7_GetTokenAmountNeverDenied ==
  [][ \A c \in Callers :
        FCallStep(c) /\ req[c].op = "getTokenAmount" =>
          res'[c].kind = "returned" ]_vars

----------------------------------------------------------------------------
(* C8 *)

\* C8: a transition that leaves the bucket full leaves no record; a denied
\* or zero-cost call on an absent record creates none, and a getTokenAmount
\* after it returns capacity.
C8_FullBucketLeavesNoRecord ==
  [][ \A c \in Callers :
        FCallStep(c) =>
          LET updated == IF Admitted(c) THEN Refilled(c) - req[c].amount
                         ELSE Refilled(c)
          IN /\ updated = capacity => store' = NoBucket
             /\ ~store.exists /\ (~Admitted(c) \/ req[c].amount = 0) =>
                  store' = NoBucket
             /\ ~store.exists /\ req[c].op = "getTokenAmount" =>
                  res'[c].tokenAmount = capacity ]_vars

----------------------------------------------------------------------------
(* C9 *)

\* the record's expiry time is not before the instant at which the stored
\* state has refilled to capacity
ExpiryNotBeforeFull ==
  store.exists =>
    Min(capacity,
        store.tokens + refillRateInTokensPerMinute
          * (store.expire_at - store.last_refilled_at_in_milliseconds))
      = capacity

\* C9: a record never expires before its bucket has refilled to capacity, so
\* a getTokenAmount run once the record has expired returns capacity.
C9_ExpiryOnlyWhenFull ==
  [][ /\ ExpiryNotBeforeFull
      /\ \A c \in Callers :
           FCallStep(c) /\ req[c].op = "getTokenAmount"
                        /\ Expired(store, clock) =>
             res'[c].kind = "returned" /\ res'[c].tokenAmount = capacity ]_vars

----------------------------------------------------------------------------
(* C10 *)

----------------------------------------------------------------------------
(* C11 *)

\* C11: a call of initialize made when the library is registered sends no
\* functionLoad, does not reject and leaves one library registered; and
\* whenever a call of initialize has resolved, one library is registered.
C11_InitializeIdempotent ==
  \A p \in Callers :
    /\ proc[p].entryLib =>
         /\ proc[p].pc # "load" /\ ~proc[p].didLoad
         /\ proc[p].outcome # "rejected"
         /\ lib = 1
    /\ proc[p].outcome = "resolved" => lib = 1

\* a call of initialize made when the library was registered has resolved
C11_Witness ==
  \E p \in Callers :
    proc[p].entryLib /\ proc[p].pc = "idle" /\ proc[p].outcome = "resolved"

----------------------------------------------------------------------------
(* C12 *)

\* C12: when processes initialize concurrently on a store without the
\* library, every interleaving leaves the library registered once and no
\* call of initialize rejects.
C12_ConcurrentInitializeConverges ==
  /\ lib <= 1
  /\ \A p \in Callers :
       /\ proc[p].outcome # "rejected"
       /\ proc[p].outcome = "resolved" => lib = 1


----------------------------------------------------------------------------
(* C13 *)

\* C13: createBucket gives no handle for a capacity <= 0 or a refill rate
\* <= 0, and no call is sent to the store with such a configuration.
C13_InvalidConfigRejected ==
  \A c \in Callers :
    (handle[c] = "created" \/ pc[c] = "sent") =>
      capacity > 0 /\ refillRateInTokensPerMinute > 0

----------------------------------------------------------------------------
(* C14 *)

\* C14: the handle offers safeConsume: calling bucket.safeConsume never ends
\* in a TypeError for a method the handle does not have.
C14_HandleOffersSafeConsume ==
  \A c \in Callers : res[c].reason # "TypeError"

----------------------------------------------------------------------------
(* C15 *)

\* initialize has been called by process p
InitializeCalled(p) == proc[p].pc # "idle" \/ proc[p].outcome # "none"

\* a step of createBucket by caller c
CreateBucketStep(c) == handle[c] # "created" /\ handle'[c] # "none" /\ pc[c] = pc'[c]

\* C15: createBucket throws when the process has never called initialize and
\* returns a handle once it has; a call is in flight to the store, or has
\* ended, only in a process that has called initialize.
C15_CreateBucketNeedsInitialize ==
  [][\A c \in Callers :
       /\ (CreateBucketStep(c) /\ handle'[c] # handle[c]) =>
            handle'[c] = (IF InitializeCalled(c) THEN "created" ELSE "thrown")
       /\ (pc'[c] = "sent" \/ res'[c].kind # "none") => InitializeCalled(c)]_vars

\* createBucket has thrown in a process whose client is open and which has
\* not called initialize, and has returned a handle in another that has
C15_Witness ==
  \E c, d \in Callers :
    /\ handle[c] = "thrown" /\ proc[c].isOpen /\ ~InitializeCalled(c)
    /\ handle[d] = "created" /\ InitializeCalled(d) /\ res[d].kind = "returned"

----------------------------------------------------------------------------
(* C17 *)

\* C17: createBucket leaves the store as it is; and a zero-cost call through
\* one handle, run on the record the other handle's call has left, reports
\* the tokens of that record (not above them) and leaves them stored.
C17_HandlesShareStoredState ==
  [][\A c \in Callers :
       /\ handle'[c] # handle[c] => store' = store
       /\ (FCallStep(c) /\ ran \notin {0, c} /\ store.exists
           /\ req[c].amount = 0) =>
            /\ res'[c].kind = "returned"
            /\ res'[c].tokenAmount <= Refilled(c)
            /\ res'[c].tokenAmount < capacity
            /\ Eff(store') = Refilled(c)]_vars

\* of 2.5 tokens, 1.5 were consumed through one handle; the call through the
\* other handle that ran last has seen 1
C17_Witness ==
  \E c, d \in Callers :
    /\ c # d /\ ran = d
    /\ handle[c] = "created" /\ handle[d] = "created"
    /\ capacity = HalfTokens(5)
    /\ store.exists /\ store.tokens = HalfTokens(2)
    /\ res[c].kind = "returned" /\ res[c].tokenAmount = HalfTokens(2)
    /\ res[d].kind = "returned" /\ res[d].tokenAmount = HalfTokens(2)


----------------------------------------------------------------------------
(* C16 *)

\* C16: a step of a call on one bucket id (the call sent, or the function run
\* and its result returned) leaves the record of every other bucket id as it
\* is: its tokens, its last_refilled_at and its expiry.
C16_BucketIdsIndependent ==
  [][\A c, d \in Callers :
       (id[c] # id[d] /\ pc'[c] # pc[c]) =>
         Stored(KeyOf(d))' = Stored(KeyOf(d))]_vars

\* the function has just run on bucket id 1 and left a record, while bucket
\* id 2 has another record, from an earlier time
C16_Witness ==
  /\ id[1] # id[2] /\ ran = 1
  /\ store.exists /\ store2.exists
  /\ res[1].kind # "none" /\ res[2].kind # "none"
  /\ store.last_refilled_at_in_milliseconds > store2.last_refilled_at_in_milliseconds
  /\ store.tokens # store2.tokens


----------------------------------------------------------------------------
(* C18 *)

\* C18: when the function runs on a record and leaves a record,
\* last_refilled_at of the record left is not before that of the record
\* found, with several callers' calls in flight, each with the timestamp it
\* took from the one clock when it was issued.
C18_LastRefilledAtNeverDecreases ==
  [][\A c \in Callers :
       (FCallStep(c) /\ store.exists /\ ~Expired(store, clock)
        /\ store'.exists) =>
         store'.last_refilled_at_in_milliseconds
           >= store.last_refilled_at_in_milliseconds]_vars

----------------------------------------------------------------------------
(* C19 *)

\* ceil(((capacity - tokens) / (refill_rate / 60000)) / 1000), in seconds
TimeToLive(tokens) ==
  Ceil(capacity - tokens, refillRateInTokensPerMinute * MsPerSecond)

\* C19: after every run of the function the record left expires
\* TimeToLive(its tokens) seconds after the run, whatever expiry the record
\* found had; and no record is left when that is no time at all.
C19_TimeToLiveRecomputed ==
  [][\A c \in Callers :
       FCallStep(c) =>
         IF TimeToLive(Run(c).updated_tokens) <= 0
         THEN store' = NoBucket
         ELSE /\ store'.exists
              /\ store'.tokens = Run(c).updated_tokens
              /\ store'.expire_at
                   = clock + TimeToLive(store'.tokens) * MsPerSecond]_vars

\* a record left by a run at a later time than the clock's start, whose
\* time to refill is not a whole number of seconds
C19_Witness ==
  /\ ran # 0 /\ store.exists /\ clock > 0
  /\ store.last_refilled_at_in_milliseconds > 0
  /\ (capacity - store.tokens) % (refillRateInTokensPerMinute * MsPerSecond) # 0
  /\ store.expire_at = clock + TimeToLive(store.tokens) * MsPerSecond

----------------------------------------------------------------------------
(* C20 *)

\* C20: the same call, with now >= the full record's last_refilled_at, run on
\* the full record and run on the absent key, gives the same result to the
\* caller (admitted or denied, and the token count) and leaves the same
\* record, with the same expiry, or none.
C20_AbsentIsFull ==
  (\A c \in Callers : pc[c] = "idle") =>
    /\ store = store2
    /\ res[1] = res[2]

\* both runs are over, after a time in which the full record would have
\* refilled, and have left a record
C20_Witness ==
  /\ mode = "equiv"
  /\ \A c \in Callers : pc[c] = "idle" /\ res[c].kind = "returned"
  /\ store.exists /\ store2.exists
  /\ store.last_refilled_at_in_milliseconds > mark.now


----------------------------------------------------------------------------
(* C21 *)

\* C21: the cost of the calls admitted with their timestamps in [t0, t1]
\* is at most capacity + refill_rate/60000 * (t1 - t0), for every interval,
\* with calls of several callers interleaved and the record expiring.
C21_RateBound ==
  window.total
    <= capacity + refillRateInTokensPerMinute * (window.t1 - window.t0)


----------------------------------------------------------------------------
(* C22 *)

\* C22: every call of a sequence with non-decreasing timestamps ends the
\* same (admitted or denied, and the token count returned) on the bucket
\* with getTokenAmount calls run in between and on the bucket without.
C22_ObservingChangesNoOutcome == res[1] = res[2]

====
